---------------------------- MODULE Spec2Model ----------------------------
(***************************************************************************)
(* A model of MidiHandlerFluidsynth (src/src/midi/midi_fluidsynth.cpp):    *)
(* the handler's members, the engine calls it issues, the mixer channel    *)
(* it feeds and the stepwise execution of SetMixerVolume and MixerCallBack.*)
(*                                                                         *)
(* Floating point values are modelled as exact non-negative rationals      *)
(* n/d in lowest terms, extended with the IEEE results of a division by    *)
(* zero: +Inf is 1/0 and NaN is 0/0.  Rounding is not modelled.            *)
(* Volumes and gains are whole multiples of one common quantum.            *)
(***************************************************************************)
EXTENDS Integers, Sequences, FiniteSets, TLC

(***************************************************************************)
(* Bounds of the model.                                                    *)
(***************************************************************************)
\* largest volume component, in quanta, the mixer hands to SetMixerVolume
MaxVol == 2
\* largest gain, in quanta, the engine reports back
MaxGain == 2
\* the per-call frame maximum (declared in the handler's header), scaled down
expected_max_frames == 2
\* SetMixerVolume calls that may begin while one MixerCallBack runs
MaxOverlaps == 1
\* largest frame count of a MixerCallBack that overlaps a SetMixerVolume
MaxRaceFrames == 1

\* INT16_MAX, the full scale of the 16 bit output
INT16_MAX == 32767

\* the largest frame count the mixer requests: 3 * max + 1
MaxFrames == 3 * expected_max_frames + 1
\* uint16_t arithmetic
UInt16 == 65536

(***************************************************************************)
(* Floats.                                                                 *)
(***************************************************************************)
RECURSIVE GCD(_, _)
GCD(a, b) == IF b = 0 THEN a ELSE GCD(b, a % b)

Num(n, d) == LET g == GCD(n, d) IN
             IF g = 0 THEN [n |-> 0, d |-> 0] ELSE [n |-> n \div g, d |-> d \div g]
Zero == Num(0, 1)
One  == Num(1, 1)
Inf  == [n |-> 1, d |-> 0]
NaN  == [n |-> 0, d |-> 0]
IsFinite(q) == q.d # 0

\* a / b on two non-negative floats holding whole quanta; a division by zero
\* gives what IEEE 754 arithmetic gives
FDiv(a, b) == IF b # 0 THEN Num(a, b)
              ELSE IF a = 0 THEN NaN ELSE Inf
\* k * q for a positive integer constant k
FScale(k, q) == IF q.d = 0 THEN q ELSE Num(k * q.n, q.d)

Min(a, b) == IF a <= b THEN a ELSE b

Frame(l, r) == [left |-> l, right |-> r]
Volumes == {Frame(l, r) : l \in 0..MaxVol, r \in 0..MaxVol}

(***************************************************************************)
(* Observable events: calls into the engine, the mixer and the log.        *)
(* synth tells whether the synth handle passed was non-null.               *)
(***************************************************************************)
NoArg == 0 - 1
Ev(name, sy, a, b, c) == [ev |-> name, synth |-> sy, a |-> a, b |-> b, c |-> c]
Res(name) == Ev(name, FALSE, NoArg, NoArg, NoArg)

VARIABLES
    is_open,          \* bool is_open
    settings,         \* fluid_settings_ptr_t settings: TRUE when non-null
    synth,            \* fsynth_ptr_t synth: TRUE when non-null
    channel,          \* mixer_channel_ptr_t channel: TRUE when non-null
    prescale_volume,  \* AudioFrame<float> prescale_volume
    mixer_volume,     \* AudioFrame<float> mixer_volume
    channel_enabled,  \* the mixer channel's enabled flag
    vol_callback,     \* the mixer channel holds the volume callback
    crashed,          \* a null unique_ptr was dereferenced
    call,             \* the handler call begun last
    prev,             \* what that call followed: "Close", "Unknown" (a
                      \* PlayMsg of no recognised class) or "other"
    ret,              \* what the last Open returned
    msg,              \* the message of the last PlayMsg
    trace,            \* the events of the call begun last
    sv,               \* SetMixerVolume's activation: pc, desired, gain_f, old
    cb_pc,            \* MixerCallBack's position
    requested,        \* the frame count MixerCallBack was called with
    frames,           \* uint16_t frames: the frames still to deliver
    len,              \* const uint16_t len of the current iteration
    accumulator,      \* std::array<float, max_samples> accumulator
    scaled,           \* std::array<int16_t, max_samples> scaled
    rendered,         \* frames the engine has rendered in this callback
    overlaps,         \* SetMixerVolume calls begun during this callback
    delivered         \* the chunks the sink received in this callback

handlerVars == <<is_open, settings, synth, channel, prescale_volume,
                 mixer_volume, channel_enabled, vol_callback, crashed>>
callVars    == <<call, prev, ret, msg, trace>>
cbVars      == <<cb_pc, requested, frames, len, accumulator, scaled,
                 rendered, overlaps, delivered>>
vars == <<handlerVars, callVars, sv, cbVars>>

max_samples == expected_max_frames * 2
Silent == [s |-> 0, p |-> Zero]
ZeroAccumulator == [i \in 0..(max_samples - 1) |-> 0]
ZeroScaled      == [i \in 0..(max_samples - 1) |-> Silent]


(***************************************************************************)
(* The handler's members as one record, for the operators that compute a   *)
(* member function's effect.                                               *)
(***************************************************************************)
This == [is_open |-> is_open, settings |-> settings, synth |-> synth,
         channel |-> channel, channel_enabled |-> channel_enabled,
         vol_callback |-> vol_callback, crashed |-> crashed]

\* a member function's outcome: the members after it, its events, its result
Outcome(h, tr, r) == [h |-> h, tr |-> tr, ret |-> r]

(***************************************************************************)
(* Close(): returns at once on a closed handler; otherwise disables the    *)
(* channel, releases channel, synth and settings and clears is_open.       *)
(* channel->Enable on a null channel is a null dereference.                *)
(***************************************************************************)
\* the body of Close releasing in the order of acquisition: settings, synth,
\* channel
CloseBodyForward(h) ==
    IF ~h.channel
    THEN Outcome([h EXCEPT !.crashed = TRUE], <<Res("null_deref")>>, FALSE)
    ELSE Outcome([h EXCEPT !.channel_enabled = FALSE,
                           !.channel = FALSE,
                           !.vol_callback = FALSE,
                           !.synth = FALSE,
                           !.settings = FALSE,
                           !.is_open = FALSE],
                 <<Res("channel_disable")>>
                   \o (IF h.settings THEN <<Res("delete_settings")>> ELSE <<>>)
                   \o (IF h.synth THEN <<Res("delete_synth")>> ELSE <<>>)
                   \o <<Res("del_channel"), Res("is_open_false")>>,
                 FALSE)

CloseBody(h) ==
    IF ~h.channel
    THEN Outcome([h EXCEPT !.crashed = TRUE], <<Res("null_deref")>>, FALSE)
    ELSE Outcome([h EXCEPT !.channel_enabled = FALSE,
                           !.channel = FALSE,
                           !.vol_callback = FALSE,
                           !.synth = FALSE,
                           !.settings = FALSE,
                           !.is_open = FALSE],
                 <<Res("channel_disable"), Res("del_channel")>>
                   \o (IF h.synth THEN <<Res("delete_synth")>> ELSE <<>>)
                   \o (IF h.settings THEN <<Res("delete_settings")>> ELSE <<>>)
                   \o <<Res("is_open_false")>>,
                 FALSE)

\* Close without line 152: is_open stays set
CloseOpKeepsOpen(h) ==
    IF ~h.is_open THEN Outcome(h, <<>>, FALSE)
    ELSE LET c == CloseBody(h) IN
         IF c.h.crashed THEN c
         ELSE Outcome([c.h EXCEPT !.is_open = TRUE],
                      SubSeq(c.tr, 1, Len(c.tr) - 1), FALSE)

CloseOp(h) ==
    IF ~h.is_open THEN Outcome(h, <<>>, FALSE) ELSE CloseBody(h)

(***************************************************************************)
(* Open(conf): Close(), then settings, synth and mixer channel in turn.    *)
(* settings_ok and synth_ok are whether new_fluid_settings and             *)
(* new_fluid_synth return an object; soundfont is whether the configured   *)
(* SoundFont path is non-empty.  Moving into a member that holds an object *)
(* deletes that object.                                                    *)
(***************************************************************************)
OpenAfterClose(c, settings_ok, synth_ok, soundfont) ==
    IF c.h.crashed THEN c
    ELSE IF ~settings_ok
    THEN Outcome(c.h, c.tr \o <<Res("new_settings_failed"), Res("log")>>, FALSE)
    ELSE
      LET h1 == [c.h EXCEPT !.settings = TRUE]
          t1 == c.tr \o <<Res("new_settings")>>
                     \o (IF c.h.settings THEN <<Res("delete_settings")>> ELSE <<>>)
      IN
      IF ~synth_ok
      THEN Outcome(h1, t1 \o <<Res("new_synth_failed"), Res("log")>>, FALSE)
      ELSE
        LET h2 == [h1 EXCEPT !.synth = TRUE,
                             !.channel = TRUE,
                             !.vol_callback = TRUE,
                             !.channel_enabled = TRUE,
                             !.is_open = TRUE]
            t2 == t1 \o <<Res("new_synth")>>
                     \o (IF h1.synth THEN <<Res("delete_synth")>> ELSE <<>>)
                     \o (IF soundfont
                         THEN <<Ev("sfload", TRUE, NoArg, NoArg, NoArg)>>
                         ELSE <<>>)
                     \o <<Res("add_channel")>>
                     \o (IF h1.channel THEN <<Res("del_channel")>> ELSE <<>>)
                     \o <<Res("register_vol_callback"), Res("channel_enable"),
                          Res("is_open_true")>>
        IN Outcome(h2, t2, TRUE)

\* Open without the return statements of lines 89 and 111: after the log
\* message it goes on to create, register and enable the channel
OpenOpNoReturn(h, settings_ok, synth_ok, soundfont) ==
    LET o == OpenAfterClose(CloseOp(h), settings_ok, synth_ok, soundfont) IN
    IF o.ret \/ o.h.crashed THEN o
    ELSE Outcome([o.h EXCEPT !.channel = TRUE,
                             !.vol_callback = TRUE,
                             !.channel_enabled = TRUE,
                             !.is_open = TRUE],
                 o.tr \o <<Res("add_channel"), Res("register_vol_callback"),
                           Res("channel_enable"), Res("is_open_true")>>,
                 TRUE)

\* Open without the Close() call of line 83
OpenOpNoClose(h, settings_ok, synth_ok, soundfont) ==
    OpenAfterClose(Outcome(h, <<>>, FALSE), settings_ok, synth_ok, soundfont)

OpenOp(h, settings_ok, synth_ok, soundfont) ==
    OpenAfterClose(CloseOp(h), settings_ok, synth_ok, soundfont)

(***************************************************************************)
(* PlayMsg(msg): the engine call a message is decoded into, or the logged  *)
(* warning.  A message is <<msg[0], msg[1], msg[2]>>.                      *)
(***************************************************************************)
StatusBytes == {128, 144, 162, 179, 196, 213, 224, 239, 127, 248}
DataBytes   == {<<60, 100>>, <<60, 0>>, <<0, 64>>, <<127, 127>>}
Messages == {<<st, d[1], d[2]>> : st \in StatusBytes, d \in DataBytes}

chanID(m) == m[1] % 16
Class(m)  == (m[1] \div 16) * 16

Recognised(m) == Class(m) \in {128, 144, 160, 176, 192, 208, 224}

\* PlayMsg with the channel taken from three bits of the status byte
PlayMsgOpNarrowChannel(h, m) ==
    LET ch == m[1] % 8 IN
    CASE Class(m) = 128 -> <<Ev("noteoff", h.synth, ch, m[2], NoArg)>>
      [] Class(m) = 144 -> <<Ev("noteon", h.synth, ch, m[2], m[3])>>
      [] Class(m) = 160 -> <<Ev("key_pressure", h.synth, ch, m[2], m[3])>>
      [] Class(m) = 176 -> <<Ev("cc", h.synth, ch, m[2], m[3])>>
      [] Class(m) = 192 -> <<Ev("program_change", h.synth, ch, m[2], NoArg)>>
      [] Class(m) = 208 -> <<Ev("channel_pressure", h.synth, ch, m[2], NoArg)>>
      [] Class(m) = 224 -> <<Ev("pitch_bend", h.synth, ch, m[2] + m[3] * 128, NoArg)>>
      [] OTHER          -> <<Ev("log", FALSE, m[1], m[2], m[3])>>

\* PlayMsg whose default case is missing: an unknown status byte reaches the
\* pitch bend case
PlayMsgOpNoDefault(h, m) ==
    CASE Class(m) = 128 -> <<Ev("noteoff", h.synth, chanID(m), m[2], NoArg)>>
      [] Class(m) = 144 -> <<Ev("noteon", h.synth, chanID(m), m[2], m[3])>>
      [] Class(m) = 160 -> <<Ev("key_pressure", h.synth, chanID(m), m[2], m[3])>>
      [] Class(m) = 176 -> <<Ev("cc", h.synth, chanID(m), m[2], m[3])>>
      [] Class(m) = 192 -> <<Ev("program_change", h.synth, chanID(m), m[2], NoArg)>>
      [] Class(m) = 208 -> <<Ev("channel_pressure", h.synth, chanID(m), m[2], NoArg)>>
      [] OTHER -> <<Ev("pitch_bend", h.synth, chanID(m), m[2] + m[3] * 128, NoArg)>>

\* PlayMsg with the pitch bend's upper byte shifted by eight bits
PlayMsgOpShift8(h, m) ==
    CASE Class(m) = 128 -> <<Ev("noteoff", h.synth, chanID(m), m[2], NoArg)>>
      [] Class(m) = 144 -> <<Ev("noteon", h.synth, chanID(m), m[2], m[3])>>
      [] Class(m) = 160 -> <<Ev("key_pressure", h.synth, chanID(m), m[2], m[3])>>
      [] Class(m) = 176 -> <<Ev("cc", h.synth, chanID(m), m[2], m[3])>>
      [] Class(m) = 192 -> <<Ev("program_change", h.synth, chanID(m), m[2], NoArg)>>
      [] Class(m) = 208 -> <<Ev("channel_pressure", h.synth, chanID(m), m[2], NoArg)>>
      [] Class(m) = 224 -> <<Ev("pitch_bend", h.synth, chanID(m), m[2] + m[3] * 256, NoArg)>>
      [] OTHER          -> <<Ev("log", FALSE, m[1], m[2], m[3])>>

PlayMsgOp(h, m) ==
    CASE Class(m) = 128 -> <<Ev("noteoff", h.synth, chanID(m), m[2], NoArg)>>
      [] Class(m) = 144 -> <<Ev("noteon", h.synth, chanID(m), m[2], m[3])>>
      [] Class(m) = 160 -> <<Ev("key_pressure", h.synth, chanID(m), m[2], m[3])>>
      [] Class(m) = 176 -> <<Ev("cc", h.synth, chanID(m), m[2], m[3])>>
      [] Class(m) = 192 -> <<Ev("program_change", h.synth, chanID(m), m[2], NoArg)>>
      [] Class(m) = 208 -> <<Ev("channel_pressure", h.synth, chanID(m), m[2], NoArg)>>
      [] Class(m) = 224 -> <<Ev("pitch_bend", h.synth, chanID(m), m[2] + m[3] * 128, NoArg)>>
      [] OTHER          -> <<Ev("log", FALSE, m[1], m[2], m[3])>>

(***************************************************************************)
(* PlaySysex(sysex, len): one fluid_synth_sysex call with the length.      *)
(***************************************************************************)
SysexLens == {0, 2, 5}
PlaySysexOp(h, n) == <<Ev("sysex", h.synth, n, NoArg, NoArg)>>


(***************************************************************************)
(* PrintStats(): hands mixer_volume to the limiter's PrintStats.           *)
(***************************************************************************)
PrintStatsOp(vol) == <<Ev("print_stats", FALSE, vol.left, vol.right, NoArg)>>

(***************************************************************************)
(* The state after construction of the global instance.                    *)
(***************************************************************************)
NoMsg == <<0, 0, 0>>
InitVolume == Frame(1, 1)
InitPrescale == Frame(One, One)

Init ==
    /\ is_open = FALSE
    /\ settings = FALSE
    /\ synth = FALSE
    /\ channel = FALSE
    /\ prescale_volume = InitPrescale
    /\ mixer_volume = InitVolume
    /\ channel_enabled = FALSE
    /\ vol_callback = FALSE
    /\ crashed = FALSE
    /\ call = "none"
    /\ prev = "none"
    /\ ret = FALSE
    /\ msg = NoMsg
    /\ trace = <<>>
    /\ sv = [pc |-> "idle", desired |-> InitVolume, gain_f |-> 1,
             old |-> InitPrescale]
    /\ cb_pc = "idle"
    /\ requested = 0
    /\ frames = 0
    /\ len = 0
    /\ accumulator = ZeroAccumulator
    /\ scaled = ZeroScaled
    /\ rendered = 0
    /\ overlaps = 0
    /\ delivered = <<>>

\* what the next call follows
Followed ==
    IF call = "Close" THEN "Close"
    ELSE IF call = "PlayMsg" /\ ~Recognised(msg) THEN "Unknown"
    ELSE "other"

\* no handler call is in progress
Idle == sv.pc = "idle" /\ cb_pc = "idle" /\ ~crashed

\* a returned callback's locals and what the sink holds of it are gone
CbReset ==
    /\ cb_pc' = "idle"
    /\ requested' = 0
    /\ frames' = 0
    /\ len' = 0
    /\ accumulator' = ZeroAccumulator
    /\ scaled' = ZeroScaled
    /\ rendered' = 0
    /\ overlaps' = 0
    /\ delivered' = <<>>

SetMembers(h) ==
    /\ is_open' = h.is_open
    /\ settings' = h.settings
    /\ synth' = h.synth
    /\ channel' = h.channel
    /\ channel_enabled' = h.channel_enabled
    /\ vol_callback' = h.vol_callback
    /\ crashed' = h.crashed

\* a call the host makes from its main thread, run to its return
HostCall(name, out, m) ==
    /\ Idle
    /\ call' = name
    /\ prev' = Followed
    /\ ret' = out.ret
    /\ msg' = m
    /\ trace' = out.tr
    /\ SetMembers(out.h)
    /\ CbReset
    /\ UNCHANGED <<prescale_volume, mixer_volume, sv>>

Open ==
    \E settings_ok \in BOOLEAN, synth_ok \in BOOLEAN, soundfont \in BOOLEAN :
        HostCall("Open", OpenOp(This, settings_ok, synth_ok, soundfont), NoMsg)

Close == HostCall("Close", CloseOp(This), NoMsg)

PlayMsg ==
    \E m \in Messages :
        HostCall("PlayMsg", Outcome(This, PlayMsgOp(This, m), FALSE), m)

PlaySysex ==
    \E n \in SysexLens :
        HostCall("PlaySysex", Outcome(This, PlaySysexOp(This, n), FALSE), NoMsg)

PrintStats ==
    HostCall("PrintStats", Outcome(This, PrintStatsOp(mixer_volume), FALSE), NoMsg)


(***************************************************************************)
(* SetMixerVolume(desired_volume), in the steps of its stores.             *)
(***************************************************************************)
\* the gain fluid_settings_getnum reads back after fluid_settings_setnum(gain):
\* the engine keeps a value of its own range, clamped or quantised; on a
\* null settings handle both calls fail and gain keeps its value
GainReadBack(has_settings, gain) ==
    IF has_settings THEN 0..MaxGain ELSE {gain}

RequestedGain(desired) == Min(desired.left, desired.right)

\* prescale from the gain that was requested, not the one read back
PrescaleFromRequested(desired, gain_f) ==
    Frame(FScale(INT16_MAX, FDiv(desired.left, RequestedGain(desired))),
          FScale(INT16_MAX, FDiv(desired.right, RequestedGain(desired))))

PrescaleOf(desired, gain_f) ==
    Frame(FScale(INT16_MAX, FDiv(desired.left, gain_f)),
          FScale(INT16_MAX, FDiv(desired.right, gain_f)))

\* keeping the mono gain instead of the as-is volume
MixerVolumeFromGain(desired, gain_f) == Frame(gain_f, gain_f)

MixerVolumeOf(desired, gain_f) == desired

\* seq: the call runs with no MixerCallBack in progress
SV_Begin(seq) ==
    /\ sv.pc = "idle"
    /\ ~crashed
    /\ channel /\ vol_callback
    /\ seq => cb_pc = "idle"
    /\ \E d \in Volumes :
         \E g \in GainReadBack(settings, RequestedGain(d)) :
            sv' = [pc |-> "prescale", desired |-> d, gain_f |-> g,
                   old |-> prescale_volume]
    /\ call' = "SetMixerVolume"
    /\ prev' = Followed
    /\ IF cb_pc = "idle"
       THEN ret' = FALSE /\ msg' = NoMsg /\ trace' = <<>> /\ CbReset
       ELSE /\ overlaps < MaxOverlaps
            /\ overlaps' = overlaps + 1
            /\ UNCHANGED <<ret, msg, trace, cb_pc, requested, frames, len,
                           accumulator, scaled, rendered, delivered>>
    /\ UNCHANGED handlerVars

\* prescale_volume = {left, right}: two float stores in either order, or one
\* eight byte store
SV_Store(seq) ==
    /\ seq => cb_pc = "idle"
    /\ LET new == PrescaleOf(sv.desired, sv.gain_f) IN
       \/ /\ sv.pc = "prescale"
          /\ prescale_volume' = new
          /\ sv' = [sv EXCEPT !.pc = "mixer"]
       \/ /\ sv.pc = "prescale"
          /\ prescale_volume' = [prescale_volume EXCEPT !.left = new.left]
          /\ sv' = [sv EXCEPT !.pc = "right"]
       \/ /\ sv.pc = "prescale"
          /\ prescale_volume' = [prescale_volume EXCEPT !.right = new.right]
          /\ sv' = [sv EXCEPT !.pc = "left"]
       \/ /\ sv.pc = "right"
          /\ prescale_volume' = [prescale_volume EXCEPT !.right = new.right]
          /\ sv' = [sv EXCEPT !.pc = "mixer"]
       \/ /\ sv.pc = "left"
          /\ prescale_volume' = [prescale_volume EXCEPT !.left = new.left]
          /\ sv' = [sv EXCEPT !.pc = "mixer"]
    /\ UNCHANGED <<is_open, settings, synth, channel, mixer_volume,
                   channel_enabled, vol_callback, crashed, callVars, cbVars>>

SV_Return(seq) ==
    /\ seq => cb_pc = "idle"
    /\ sv.pc = "mixer"
    /\ mixer_volume' = MixerVolumeOf(sv.desired, sv.gain_f)
    /\ sv' = [sv EXCEPT !.pc = "idle", !.old = prescale_volume]
    /\ UNCHANGED <<is_open, settings, synth, channel, prescale_volume,
                   channel_enabled, vol_callback, crashed, callVars, cbVars>>

(***************************************************************************)
(* MixerCallBack(frames), one step per call it makes.                      *)
(***************************************************************************)
\* the engine's output: frame k of this callback, channel ch (0 left, 1 right)
Sample(k, ch) == 2 * k - 1 + ch

\* fluid_synth_write_float(synth, n, acc, 0, 2, acc, 1, 2): n frames written
\* interleaved from the start of the buffer
RenderInto(acc, n, base) ==
    [i \in DOMAIN acc |->
        IF i < 2 * n THEN Sample(base + (i \div 2) + 1, i % 2) ELSE acc[i]]

\* one sample through the limiter at pre-scale p
Scale(s, p) == IF s = 0 /\ IsFinite(p) THEN Silent ELSE [s |-> s, p |-> p]

\* soft_limiter.Apply(in, out, n): the first n frames of in, scaled per channel
LimiterApply(in, out, n, prescale) ==
    [i \in DOMAIN out |->
        IF i < 2 * n
        THEN Scale(in[i], IF i % 2 = 0 THEN prescale.left ELSE prescale.right)
        ELSE out[i]]

\* len capped by the sample count of the buffers instead of the frame count
ChunkLenBySamples(remaining) == Min(remaining, max_samples)

ChunkLen(remaining) == Min(remaining, expected_max_frames)

\* frames -= max_frames: the maximum subtracted instead of len
RemainingLessMax(remaining, n) ==
    (remaining - expected_max_frames + UInt16) % UInt16

\* frames -= len, in uint16_t
Remaining(remaining, n) == (remaining - n + UInt16) % UInt16

\* the first n frames of the buffer, as the sink receives them
Chunk(buf, n) == [i \in 1..(2 * n) |-> buf[i - 1]]

CB_Begin(seq) ==
    /\ cb_pc = "idle"
    /\ ~crashed
    /\ channel /\ channel_enabled
    /\ seq => sv.pc = "idle"
    /\ \E F \in 0..(IF seq THEN MaxFrames ELSE MaxRaceFrames) :
         /\ requested' = F
         /\ frames' = F
    /\ len' = 0
    /\ accumulator' = ZeroAccumulator
    /\ scaled' = ZeroScaled
    /\ rendered' = 0
    /\ overlaps' = 0
    /\ delivered' = <<>>
    /\ cb_pc' = "loop"
    /\ call' = "MixerCallBack"
    /\ prev' = Followed
    /\ ret' = FALSE
    /\ msg' = NoMsg
    /\ trace' = <<>>
    /\ UNCHANGED <<handlerVars, sv>>

CB_Render(seq) ==
    /\ cb_pc = "loop"
    /\ frames > 0
    /\ seq => sv.pc = "idle"
    /\ len' = ChunkLen(frames)
    /\ \E ok \in (IF synth THEN BOOLEAN ELSE {FALSE}) :
         /\ accumulator' = IF ok THEN RenderInto(accumulator, len', rendered)
                                 ELSE accumulator
         /\ rendered' = IF ok THEN rendered + len' ELSE rendered
         /\ trace' = Append(trace, Ev("render", synth, len',
                                      IF ok THEN 1 ELSE 0, NoArg))
    /\ cb_pc' = "limit"
    /\ UNCHANGED <<handlerVars, sv, call, prev, ret, msg, requested, frames,
                   scaled, overlaps, delivered>>

CB_Limit(seq) ==
    /\ cb_pc = "limit"
    /\ seq => sv.pc = "idle"
    /\ scaled' = LimiterApply(accumulator, scaled, len, prescale_volume)
    /\ trace' = Append(trace, Ev("limit", FALSE, len, NoArg, NoArg))
    /\ cb_pc' = "deliver"
    /\ UNCHANGED <<handlerVars, sv, call, prev, ret, msg, requested, frames,
                   len, accumulator, rendered, overlaps, delivered>>

CB_Deliver(seq) ==
    /\ cb_pc = "deliver"
    /\ seq => sv.pc = "idle"
    /\ IF channel
       THEN /\ delivered' = Append(delivered, Chunk(scaled, len))
            /\ trace' = Append(trace, Ev("deliver", FALSE, len, NoArg, NoArg))
            /\ frames' = Remaining(frames, len)
            /\ cb_pc' = "loop"
            /\ UNCHANGED crashed
       ELSE /\ crashed' = TRUE
            /\ trace' = Append(trace, Res("null_deref"))
            /\ cb_pc' = "idle"
            /\ UNCHANGED <<delivered, frames>>
    /\ UNCHANGED <<is_open, settings, synth, channel, prescale_volume,
                   mixer_volume, channel_enabled, vol_callback, sv, call,
                   prev, ret, msg, requested, len, accumulator, scaled,
                   rendered, overlaps>>

CB_Return(seq) ==
    /\ cb_pc = "loop"
    /\ frames = 0
    /\ seq => sv.pc = "idle"
    /\ cb_pc' = "idle"
    /\ UNCHANGED <<handlerVars, callVars, sv, requested, frames, len,
                   accumulator, scaled, rendered, overlaps, delivered>>

(***************************************************************************)
(* Spec: every call runs to its return before the next begins.             *)
(***************************************************************************)
Next ==
    \/ Open
    \/ Close
    \/ PlayMsg
    \/ PlaySysex
    \/ PrintStats
    \/ SV_Begin(TRUE)
    \/ SV_Store(TRUE)
    \/ SV_Return(TRUE)
    \/ CB_Begin(TRUE)
    \/ CB_Render(TRUE)
    \/ CB_Limit(TRUE)
    \/ CB_Deliver(TRUE)
    \/ CB_Return(TRUE)

Spec == Init /\ [][Next]_vars

(***************************************************************************)
(* SpecRace: the volume callback runs on another thread than the audio     *)
(* callback, and their steps interleave.                                   *)
(***************************************************************************)
NextRace ==
    \/ Open
    \/ SV_Begin(FALSE)
    \/ SV_Store(FALSE)
    \/ SV_Return(FALSE)
    \/ CB_Begin(FALSE)
    \/ CB_Render(FALSE)
    \/ CB_Limit(FALSE)
    \/ CB_Deliver(FALSE)
    \/ CB_Return(FALSE)

SpecRace == Init /\ [][NextRace]_vars

(***************************************************************************)
(* SpecBend: one PlayMsg call of a pitch bend message, over every pair of  *)
(* 7-bit data bytes, on the first, a middle and the last channel.          *)
(***************************************************************************)
BendMessages == {<<st, lsb, msb>> : st \in {224, 229, 239}, lsb \in 0..127,
                                    msb \in 0..127}

InitBend ==
    /\ is_open = FALSE
    /\ settings = FALSE
    /\ synth = FALSE
    /\ channel = FALSE
    /\ prescale_volume = InitPrescale
    /\ mixer_volume = InitVolume
    /\ channel_enabled = FALSE
    /\ vol_callback = FALSE
    /\ crashed = FALSE
    /\ call = "none"
    /\ prev = "none"
    /\ ret = FALSE
    /\ msg \in BendMessages
    /\ trace = <<>>
    /\ sv = [pc |-> "idle", desired |-> InitVolume, gain_f |-> 1,
             old |-> InitPrescale]
    /\ cb_pc = "idle"
    /\ requested = 0
    /\ frames = 0
    /\ len = 0
    /\ accumulator = ZeroAccumulator
    /\ scaled = ZeroScaled
    /\ rendered = 0
    /\ overlaps = 0
    /\ delivered = <<>>

\* PlayMsg of the drawn message
PlayBend ==
    /\ call = "none"
    /\ HostCall("PlayMsg", Outcome(This, PlayMsgOp(This, msg), FALSE), msg)

NextBend == PlayBend

SpecBend == InitBend /\ [][NextBend]_vars


(***************************************************************************)
(* Helpers of the properties.                                              *)
(***************************************************************************)
RECURSIVE Flatten(_)
Flatten(chunks) ==
    IF chunks = <<>> THEN <<>> ELSE Head(chunks) \o Flatten(Tail(chunks))

RECURSIVE SumFrames(_)
SumFrames(chunks) ==
    IF chunks = <<>> THEN 0
    ELSE (Len(Head(chunks)) \div 2) + SumFrames(Tail(chunks))

IsRender(e) == e.ev = "render"
RenderCalls == SelectSeq(trace, IsRender)

IsEngineSample(x) == x.s # 0
\* the engine samples the sink received, in the order it received them
DeliveredSamples == SelectSeq(Flatten(delivered), IsEngineSample)

CallbackReturned == call = "MixerCallBack" /\ cb_pc = "idle" /\ ~crashed

EngineCalls == {"noteoff", "noteon", "key_pressure", "cc", "program_change",
                "channel_pressure", "pitch_bend", "sysex", "render", "sfload"}

\* the operation the dispatch table assigns to a status high nibble
TableOp(nibble) ==
    CASE nibble = 8  -> "noteoff"
      [] nibble = 9  -> "noteon"
      [] nibble = 10 -> "key_pressure"
      [] nibble = 11 -> "cc"
      [] nibble = 12 -> "program_change"
      [] nibble = 13 -> "channel_pressure"
      [] nibble = 14 -> "pitch_bend"
      [] OTHER       -> "none"

\* e is the one engine call the table asks for message m
ForwardedAsTable(e, m) ==
    /\ e.ev = TableOp(m[1] \div 16)
    /\ e.a = m[1] % 16
    /\ e.ev # "pitch_bend" => e.b = m[2]
    /\ e.ev \in {"noteon", "key_pressure", "cc"} => e.c = m[3]

(***************************************************************************)
(* C1: one MixerCallBack(F) delivers chunks whose lengths sum to F, and    *)
(* the engine's samples reach the sink in the order they were rendered,    *)
(* none skipped and none twice.                                            *)
(***************************************************************************)
C1_DeliversEachFrameOnce ==
    CallbackReturned =>
        /\ SumFrames(delivered) = requested
        /\ Len(DeliveredSamples) = 2 * rendered
        /\ \A j \in 1..Len(DeliveredSamples) : DeliveredSamples[j].s = j

(***************************************************************************)
(* C2: a message of a recognised class makes exactly one engine call, the  *)
(* one the table assigns to its high nibble, with channel = status & 0x0F  *)
(* and the data bytes unchanged, whatever was dispatched before.           *)
(***************************************************************************)
C2_OneCallPerMessage ==
    (call = "PlayMsg" /\ Recognised(msg)) =>
        /\ Len(trace) = 1
        /\ ForwardedAsTable(trace[1], msg)
        /\ trace[1].synth = synth
        /\ msg = <<144, 60, 100>> => trace[1] = Ev("noteon", synth, 0, 60, 100)
        /\ msg = <<128, 60, 0>> => trace[1] = Ev("noteoff", synth, 0, 60, NoArg)

C2_Witness ==
    /\ call = "PlayMsg"
    /\ msg = <<144, 60, 100>>
    /\ is_open
    /\ trace = <<Ev("noteon", TRUE, 0, 60, 100)>>

(***************************************************************************)
(* C3: a PlayMsg of an unrecognised status byte logs one warning, makes no *)
(* engine call and changes no member; a recognised message dispatched      *)
(* right after it is forwarded as the table says.                          *)
(***************************************************************************)
C3_UnknownDropped ==
    [][call' = "PlayMsg" =>
         /\ ~Recognised(msg') =>
               /\ trace' = <<Ev("log", FALSE, msg'[1], msg'[2], msg'[3])>>
               /\ UNCHANGED <<handlerVars, sv>>
         /\ (Recognised(msg') /\ prev' = "Unknown") =>
               /\ Len(trace') = 1
               /\ ForwardedAsTable(trace'[1], msg')
               /\ trace'[1].synth = synth
               /\ UNCHANGED <<handlerVars, sv>>]_vars

C3_Witness ==
    /\ call = "PlayMsg"
    /\ prev = "Unknown"
    /\ msg = <<144, 60, 100>>
    /\ trace = <<Ev("noteon", TRUE, 0, 60, 100)>>

(***************************************************************************)
(* C4: a Close() right after a Close() leaves every member as the first    *)
(* left it, touches no resource and dereferences nothing.                  *)
(***************************************************************************)
C4_CloseIdempotent ==
    [][(call' = "Close" /\ prev' = "Close") =>
          /\ UNCHANGED handlerVars
          /\ trace' = <<>>
          /\ ~crashed']_vars

C4_Witness ==
    /\ call = "Close"
    /\ prev = "Close"
    /\ trace = <<>>
    /\ ~is_open /\ ~channel /\ ~synth /\ ~settings
    /\ ~crashed

(***************************************************************************)
(* C5: an Open in which the creation of the settings or of the synth fails *)
(* returns false and leaves the handler closed: is_open false, no channel  *)
(* created or enabled, no volume callback registered.                      *)
(***************************************************************************)
Happened(name) == \E i \in 1..Len(trace) : trace[i].ev = name

C5_FailedOpenStaysClosed ==
    (call = "Open" /\ (Happened("new_settings_failed") \/ Happened("new_synth_failed"))) =>
        /\ ~ret
        /\ ~is_open
        /\ ~channel /\ ~channel_enabled /\ ~vol_callback
        /\ ~Happened("add_channel")
        /\ ~Happened("channel_enable")
        /\ ~Happened("register_vol_callback")

C5_Witness ==
    /\ call = "Open"
    /\ Happened("new_synth_failed")
    /\ Happened("channel_disable")
    /\ ~ret /\ ~is_open /\ ~channel

(***************************************************************************)
(* C6: once SetMixerVolume(l, r) has returned, mixer_volume is (l, r), for *)
(* every gain the engine read back, and PrintStats hands that pair to the  *)
(* limiter.                                                                *)
(***************************************************************************)
C6_MixerVolumeRetained ==
    /\ (call = "SetMixerVolume" /\ sv.pc = "idle") => mixer_volume = sv.desired
    /\ call = "PrintStats" =>
          trace = <<Ev("print_stats", FALSE, sv.desired.left, sv.desired.right, NoArg)>>

C6_Witness ==
    /\ call = "SetMixerVolume"
    /\ sv.pc = "idle"
    /\ sv.desired = Frame(2, 1)
    /\ sv.gain_f = 2
    /\ mixer_volume = Frame(2, 1)

(***************************************************************************)
(* C7: SetMixerVolume never derives the pre-scale factor from a gain that  *)
(* read back as zero: with a zero gain the stored factor is a defined,     *)
(* finite fallback.                                                        *)
(***************************************************************************)
C7_ZeroGainGuarded ==
    (call = "SetMixerVolume" /\ sv.pc \in {"mixer", "idle"} /\ sv.gain_f = 0) =>
        /\ IsFinite(prescale_volume.left)
        /\ IsFinite(prescale_volume.right)

(***************************************************************************)
(* C8: after SetMixerVolume(l, r) with l, r > 0 and a read back gain       *)
(* g # 0 the pre-scale factor is (INT16_MAX*l/g, INT16_MAX*r/g), so that   *)
(* prescale.left / prescale.right = l / r.                                 *)
(***************************************************************************)
C8_PrescaleFromReadBack ==
    (/\ call = "SetMixerVolume"
     /\ sv.pc \in {"mixer", "idle"}
     /\ sv.desired.left > 0
     /\ sv.desired.right > 0
     /\ sv.gain_f # 0) =>
        /\ prescale_volume.left = Num(INT16_MAX * sv.desired.left, sv.gain_f)
        /\ prescale_volume.right = Num(INT16_MAX * sv.desired.right, sv.gain_f)
        /\ prescale_volume.left.n * prescale_volume.right.d * sv.desired.right
             = prescale_volume.right.n * prescale_volume.left.d * sv.desired.left

C8_Witness ==
    /\ call = "SetMixerVolume"
    /\ sv.pc = "idle"
    /\ sv.desired = Frame(1, 2)
    /\ sv.gain_f = 2
    /\ prescale_volume = Frame(Num(INT16_MAX, 2), Num(INT16_MAX, 1))

(***************************************************************************)
(* C9: wherever a chunk is about to be limited, prescale_volume is the     *)
(* pair of the previous volume or the pair of the new volume, never the    *)
(* left of one with the right of the other.  Stated for volume changes     *)
(* whose factors are finite (positive volume, non-zero gain read back).    *)
(***************************************************************************)
C9_NoMixedPrescale ==
    (/\ cb_pc = "limit"
     /\ sv.desired.left > 0
     /\ sv.desired.right > 0
     /\ sv.gain_f # 0) =>
        prescale_volume \in {sv.old, PrescaleOf(sv.desired, sv.gain_f)}

(***************************************************************************)
(* C10: the chunk delivered for a render call that failed is silence; a    *)
(* failure on a later chunk does not deliver an earlier chunk's samples    *)
(* again.                                                                  *)
(***************************************************************************)
C10_FailedRenderIsSilence ==
    \A k \in 1..Len(delivered) :
        RenderCalls[k].b = 0 =>
            \A i \in 1..Len(delivered[k]) : delivered[k][i].s = 0


(***************************************************************************)
(* C11: in every iteration of the render loop 1 <= len <=                  *)
(* expected_max_frames and len <= frames, so the engine is never asked for *)
(* more than the per-call maximum, at most 2*len <= max_samples buffer     *)
(* entries are touched, and frames -= len does not wrap below zero.        *)
(***************************************************************************)
C11_ChunkWithinBounds ==
    /\ cb_pc \in {"limit", "deliver"} =>
          /\ 1 <= len
          /\ len <= expected_max_frames
          /\ len <= frames
          /\ 2 * len <= max_samples
          /\ frames - len >= 0
    /\ \A i \in 1..Len(trace) :
          trace[i].ev \in {"render", "limit", "deliver"} =>
              (1 <= trace[i].a /\ trace[i].a <= expected_max_frames)
    /\ \A k \in 1..Len(delivered) : Len(delivered[k]) <= max_samples

C11_Witness ==
    /\ cb_pc = "deliver"
    /\ requested = MaxFrames
    /\ frames = 1
    /\ len = 1
    /\ Len(delivered) = 3


(***************************************************************************)
(* C12: MixerCallBack(F) returns after exactly ceil(F /                    *)
(* expected_max_frames) iterations, each one engine render call, one       *)
(* limiter call and one sink delivery in that order; for F = 0 it makes no *)
(* call at all.  While it runs a next step always exists and the frames    *)
(* still to deliver are F less the frames delivered.                       *)
(***************************************************************************)
Iterations(F) == (F + expected_max_frames - 1) \div expected_max_frames
IterationCall(i) ==
    CASE i % 3 = 1 -> "render"
      [] i % 3 = 2 -> "limit"
      [] OTHER     -> "deliver"

C12_IterationCount ==
    (call = "MixerCallBack" /\ ~crashed) =>
        /\ Len(trace) <= 3 * Iterations(requested)
        /\ \A i \in 1..Len(trace) : trace[i].ev = IterationCall(i)
        /\ cb_pc = "loop" => frames = requested - SumFrames(delivered)
        /\ cb_pc # "idle" =>
              ENABLED (CB_Render(TRUE) \/ CB_Limit(TRUE) \/ CB_Deliver(TRUE)
                       \/ CB_Return(TRUE))
        /\ cb_pc = "idle" =>
              /\ Len(trace) = 3 * Iterations(requested)
              /\ Len(delivered) = Iterations(requested)
              /\ Len(RenderCalls) = Iterations(requested)
              /\ requested = 0 => (trace = <<>> /\ delivered = <<>>)

C12_Witness ==
    /\ CallbackReturned
    /\ requested = 2 * expected_max_frames + 1
    /\ Len(delivered) = 3
    /\ Len(trace) = 9


(***************************************************************************)
(* C13: a pitch bend message (status high nibble 0xE) passes the engine    *)
(* lsb + (msb << 7), lsb its first and msb its second data byte; for 7-bit *)
(* data bytes the value lies in 0..16383 and both bytes can be read back   *)
(* from it, so distinct pairs give distinct values; (0xE0, 0x00, 0x40)     *)
(* gives 8192.                                                             *)
(***************************************************************************)
C13_PitchBendValue ==
    (call = "PlayMsg" /\ Class(msg) = 224) =>
        /\ Len(trace) = 1
        /\ trace[1].ev = "pitch_bend"
        /\ trace[1].a = msg[1] % 16
        /\ trace[1].b = msg[2] + msg[3] * (2 ^ 7)
        /\ trace[1].b \in 0..16383
        /\ trace[1].b % 128 = msg[2]
        /\ trace[1].b \div 128 = msg[3]
        /\ msg = <<224, 0, 64>> => trace[1].b = 8192

C13_Witness ==
    /\ call = "PlayMsg"
    /\ msg = <<224, 0, 64>>
    /\ trace = <<Ev("pitch_bend", FALSE, 0, 8192, NoArg)>>


(***************************************************************************)
(* C14: Open acquires settings, then synth, then the mixer channel.  Close *)
(* on an open handler disables the channel, releases channel, synth and    *)
(* settings in that order and only then clears is_open; the Close() that   *)
(* Open makes on an open handler does the same before anything is          *)
(* acquired.  Whenever the channel is held, so is the synth.               *)
(***************************************************************************)
ReleaseOrder == <<Res("channel_disable"), Res("del_channel"),
                  Res("delete_synth"), Res("delete_settings"),
                  Res("is_open_false")>>

\* every name1 event of the trace comes before every name2 event
Before(name1, name2) ==
    \A i, j \in 1..Len(trace) :
        (trace[i].ev = name1 /\ trace[j].ev = name2) => i < j

C14_ReverseRelease ==
    /\ (call = "Close" /\ trace # <<>>) =>
          /\ trace = ReleaseOrder
          /\ ~is_open /\ ~channel /\ ~synth /\ ~settings
    /\ (call = "Open" /\ Happened("channel_disable")) =>
          /\ Len(trace) > Len(ReleaseOrder)
          /\ SubSeq(trace, 1, Len(ReleaseOrder)) = ReleaseOrder
    /\ (call = "Open" /\ ret) =>
          /\ Happened("new_settings") /\ Happened("new_synth")
          /\ Happened("add_channel")
          /\ Before("new_settings", "new_synth")
          /\ Before("new_synth", "add_channel")
          /\ Before("add_channel", "is_open_true")
    /\ channel => synth
    /\ synth => settings

C14_Witness ==
    /\ call = "Close"
    /\ trace = ReleaseOrder
    /\ ~is_open /\ ~channel /\ ~synth /\ ~settings


(***************************************************************************)
(* C15: after every completed Open or Close call is_open is true if and    *)
(* only if settings, synth and channel are all held, and no resource is    *)
(* held while the handler is closed.                                       *)
(***************************************************************************)
C15_OpenIffAllHeld ==
    (call \in {"Open", "Close"} /\ ~crashed) =>
        /\ is_open <=> (settings /\ synth /\ channel)
        /\ ~is_open => (~settings /\ ~synth /\ ~channel)

(***************************************************************************)
(* C16: no engine operation (note or control call, sysex, render) is       *)
(* issued with a synth handle that was released or never created: every    *)
(* engine call of every handler call is made while the handler is open and *)
(* holds a synth.                                                          *)
(***************************************************************************)
C16_EngineOnlyWhileOpen ==
    \A i \in 1..Len(trace) :
        trace[i].ev \in EngineCalls => (trace[i].synth /\ synth /\ is_open)


(***************************************************************************)
(* C17: Open on an open handler first disables and releases the old        *)
(* channel, synth and settings, before anything is acquired; through every *)
(* Open and Close call at most one synth instance and at most one mixer    *)
(* channel exist at any point; a successful Open ends with the volume      *)
(* callback registered, then the channel enabled, then is_open set.        *)
(***************************************************************************)
Max(a, b) == IF a >= b THEN a ELSE b

\* the largest number of live objects while the events of tr happen, n of
\* them live before: acquire creates one, release destroys one
RECURSIVE MaxLive(_, _, _, _)
MaxLive(tr, acquire, release, n) ==
    IF tr = <<>> THEN n
    ELSE LET e  == Head(tr).ev
             n1 == n + (IF e = acquire THEN 1 ELSE 0)
                     - (IF e = release THEN 1 ELSE 0)
         IN Max(n, MaxLive(Tail(tr), acquire, release, n1))

OpenEnding == <<Res("register_vol_callback"), Res("channel_enable"),
                Res("is_open_true")>>

C17_OpenTearsDownFirst ==
    [][call' \in {"Open", "Close"} =>
          /\ MaxLive(trace', "new_synth", "delete_synth",
                     IF synth THEN 1 ELSE 0) <= 1
          /\ MaxLive(trace', "add_channel", "del_channel",
                     IF channel THEN 1 ELSE 0) <= 1
          /\ (call' = "Open" /\ is_open) =>
                /\ Len(trace') > Len(ReleaseOrder)
                /\ SubSeq(trace', 1, Len(ReleaseOrder)) = ReleaseOrder
          /\ (call' = "Open" /\ ret') =>
                /\ is_open' /\ vol_callback' /\ channel_enabled'
                /\ settings' /\ synth' /\ channel'
                /\ Len(trace') >= Len(OpenEnding)
                /\ SubSeq(trace', Len(trace') - Len(OpenEnding) + 1,
                          Len(trace')) = OpenEnding
          /\ ~crashed']_vars

C17_Witness ==
    /\ call = "Open"
    /\ ret
    /\ is_open /\ vol_callback /\ channel_enabled
    /\ Len(trace) > Len(ReleaseOrder)
    /\ SubSeq(trace, 1, Len(ReleaseOrder)) = ReleaseOrder
    /\ Happened("new_synth")
    /\ Happened("is_open_true")

=============================================================================
